---- MODULE Spec2Model ----
(***************************************************************************)
(* A model of src/escpos/escpos.py: the ESC/POS printer object (Escpos),   *)
(* its image conversion and raster framing, and the scoped session wrapper *)
(* (EscposIO).                                                             *)
(*                                                                         *)
(* The channel is the sequence of device.raw(...) calls that reached the   *)
(* device.  A write is a record [cmd, data]: a protocol constant is named  *)
(* by cmd (the constants module gives the bytes), raw data has cmd "DATA"  *)
(* and its bytes (or the text) in data.                                    *)
(***************************************************************************)
EXTENDS Integers, Sequences, FiniteSets, TLC

VARIABLES
    channel,     \* the device.raw calls that reached the device, in order
    text_style,  \* Escpos.text_style: [isNone, kw]
    codepage,    \* Escpos._codepage ("None" when unset)
    device,      \* Escpos.device: "open", or "None" after a failed release
    releases,    \* number of calls of the driver's release (printer.__del__)
    transport,   \* "ok", or "gone" once the transport refuses writes
    scope,       \* the with-block of EscposIO: "none", "body", "exited"
    autocut,     \* EscposIO.autocut
    autoclose,   \* EscposIO.autoclose
    pending,     \* the exception propagating out of the with-body, or "None"
    exitCalls,   \* the printer methods __exit__ has called, in order
    iterOrder,   \* the order in which TEXT_STYLE.iteritems() yields the keys
    native,      \* device.printer.barcode: the firmware prints barcodes
    steps,       \* number of printer operations called so far
    last         \* the last call: its name, inputs, result and exception

vars == <<channel, text_style, codepage, device, releases, transport, scope,
          autocut, autoclose, pending, exitCalls, iterOrder, native, steps,
          last>>

---------------------------------------------------------------------------
(* Bounds of the model.                                                    *)

MaxOps == 2
MaxRows == 2
MaxPat == 2
MaxWidth == 70

(* Program constants.                                                      *)

MaxImageHeight == 255
WarnWidth == 512

---------------------------------------------------------------------------
(* Writes.                                                                 *)

Cmd(name) == [cmd |-> name, data |-> <<>>]
Data(bytes) == [cmd |-> "DATA", data |-> bytes]

NoException == "None"

(* The outcome of a handler whose raw calls are `writes`, in order, and    *)
(* which then ends with `raised`: the first raw call fails on a device     *)
(* that is None (self.device.raw) or on a transport that is gone.          *)
Deliver(writes, raised, dev, tr) ==
    IF writes = <<>> THEN [writes |-> <<>>, raised |-> raised]
    ELSE IF dev = "None" THEN [writes |-> <<>>, raised |-> "AttributeError"]
    ELSE IF tr = "gone" THEN [writes |-> <<>>, raised |-> "TransportError"]
    ELSE [writes |-> writes, raised |-> raised]

---------------------------------------------------------------------------
(* Images.  An image is [w, h, pat]: its pixels, in row-major order,       *)
(* repeat the RGB triples of pat.                                          *)

Black == <<0, 0, 0>>
White == <<255, 255, 255>>
Colours == {Black, <<255, 0, 0>>, <<255, 1, 0>>, <<255, 255, 0>>,
            <<255, 255, 1>>, White}

Patterns(n) == UNION {[1..k -> Colours] : k \in 1..n}

ImagesOf(widths, heights, pats) ==
    {[w |-> w, h |-> h, pat |-> p] : w \in widths, h \in heights, p \in pats}

getpixel(im, x, y) == im.pat[((y * im.w + x) % Len(im.pat)) + 1]

Widths == {1, 2, 31, 32, 33}
TallHeights == {MaxImageHeight + 1}

(* The images the conversion is applied to on its own.                     *)
Images ==
    ImagesOf(Widths, 1..MaxRows, Patterns(MaxPat))
        \cup ImagesOf({1}, TallHeights, {<<Black>>})

(* The images handed to the print calls of a session.                      *)
PrintImages ==
    ImagesOf({32}, {1}, {<<Black>>, <<White>>})
        \cup ImagesOf({1}, {2}, {<<<<255, 1, 0>>>>})
        \cup ImagesOf({1}, TallHeights, {<<Black>>})

---------------------------------------------------------------------------
(* Escpos._check_image_size                                                *)

check_image_size_even(size) ==
    IF size % 32 = 0 THEN <<0, 0>>
    ELSE LET image_border == 32 - (size % 32)
         IN <<image_border \div 2, image_border \div 2>>

_check_image_size(size) ==
    IF size % 32 = 0 THEN <<0, 0>>
    ELSE LET image_border == 32 - (size % 32)
         IN IF image_border % 2 = 0
            THEN <<image_border \div 2, image_border \div 2>>
            ELSE <<image_border \div 2, (image_border \div 2) + 1>>

---------------------------------------------------------------------------
(* Escpos._convert_image.  pix_line is a string of the characters "0" and  *)
(* "1", modelled as a sequence of one-character strings.                   *)

Repeat(c, n) == [i \in 1..n |-> c]

im_pattern == <<"1", "X", "0">>
pattern_len == Len(im_pattern)

Digit(switch) == IF switch = 1 THEN "1" ELSE "0"

(* The inner loop `for x in range(pattern_len)`: the characters one pixel  *)
(* appends to pix_line.                                                    *)
RECURSIVE pattern_loop(_, _, _)
pattern_loop(im_color, switch, x) ==
    IF x >= pattern_len THEN <<>>
    ELSE IF im_color <= ((255 * 3) \div pattern_len) * (x + 1)
         THEN IF im_pattern[x + 1] = "X"
              THEN <<Digit(switch)>>
              ELSE <<im_pattern[x + 1]>>
    ELSE IF /\ im_color > ((255 * 3) \div pattern_len) * pattern_len
            /\ im_color <= 255 * 3
         THEN <<im_pattern[pattern_len]>>
    ELSE pattern_loop(im_color, switch, x + 1)

(* The loop `for x in range(im.size[0])` of row y.                         *)
(* st = [x, pix_line, switch, size0], x the column the loop is at.         *)
RECURSIVE pixel_loop(_, _, _)
pixel_loop(im, y, st) ==
    IF st.x >= im.w THEN st
    ELSE LET RGB == getpixel(im, st.x, y)
             im_color == RGB[1] + RGB[2] + RGB[3]
             switch == (st.switch - 1) * (-1)
         IN pixel_loop(im, y,
                [x |-> st.x + 1,
                 pix_line |-> st.pix_line \o pattern_loop(im_color, switch, 0),
                 switch |-> switch,
                 size0 |-> st.size0 + 1])

(* The loop `for y in range(im.size[1])`.                                  *)
(* st = [y, pix_line, switch, size0], y the row the loop is at.            *)
RECURSIVE row_loop(_, _, _)
row_loop(im, im_border, st) ==
    IF st.y >= im.h THEN st
    ELSE LET row == pixel_loop(im, st.y,
                        [x |-> 0,
                         pix_line |-> st.pix_line \o Repeat("0", im_border[1]),
                         switch |-> st.switch,
                         size0 |-> st.size0 + im_border[1]])
         IN row_loop(im, im_border,
                [y |-> st.y + 1,
                 pix_line |-> row.pix_line \o Repeat("0", im_border[2]),
                 switch |-> row.switch,
                 size0 |-> row.size0 + im_border[2]])

(* The same loop with the dither switch reset at every row.                *)
RECURSIVE row_loop_reset(_, _, _)
row_loop_reset(im, im_border, st) ==
    IF st.y >= im.h THEN st
    ELSE LET row == pixel_loop(im, st.y,
                        [x |-> 0,
                         pix_line |-> st.pix_line \o Repeat("0", im_border[1]),
                         switch |-> 0,
                         size0 |-> st.size0 + im_border[1]])
         IN row_loop_reset(im, im_border,
                [y |-> st.y + 1,
                 pix_line |-> row.pix_line \o Repeat("0", im_border[2]),
                 switch |-> row.switch,
                 size0 |-> row.size0 + im_border[2]])

convert_image_switch_reset(im) ==
    IF im.h > MaxImageHeight
    THEN [raised |-> "ImageSizeError", warned |-> im.w > WarnWidth,
          pix_line |-> <<>>, img_size |-> <<0, 0>>]
    ELSE LET st == row_loop_reset(im, _check_image_size(im.w),
                        [y |-> 0, pix_line |-> <<>>, switch |-> 0, size0 |-> 0])
         IN [raised |-> NoException, warned |-> im.w > WarnWidth,
             pix_line |-> st.pix_line, img_size |-> <<st.size0, im.h>>]

_convert_image(im) ==
    IF im.h > MaxImageHeight
    THEN [raised |-> "ImageSizeError", warned |-> im.w > WarnWidth,
          pix_line |-> <<>>, img_size |-> <<0, 0>>]
    ELSE LET st == row_loop(im, _check_image_size(im.w),
                        [y |-> 0, pix_line |-> <<>>, switch |-> 0, size0 |-> 0])
         IN [raised |-> NoException, warned |-> im.w > WarnWidth,
             pix_line |-> st.pix_line, img_size |-> <<st.size0, im.h>>]

---------------------------------------------------------------------------
(* Escpos._print_image.  "%02X" formatting gives hexadecimal digits (here  *)
(* their values 0..15); decode("hex") reads them back two at a time.       *)

RECURSIVE HexDigits(_)
HexDigits(v) == IF v < 16 THEN <<v>> ELSE HexDigits(v \div 16) \o <<v % 16>>

Fmt02X(v) == LET d == HexDigits(v) IN IF Len(d) < 2 THEN <<0>> \o d ELSE d

decode_hex(buf) == [k \in 1..(Len(buf) \div 2) |-> 16 * buf[2 * k - 1] + buf[2 * k]]

(* int(s, 2) of a string of "0" and "1".                                   *)
RECURSIVE int2(_)
int2(s) ==
    IF s = <<>> THEN 0
    ELSE 2 * int2(SubSeq(s, 1, Len(s) - 1)) + (IF s[Len(s)] = "1" THEN 1 ELSE 0)

Min(a, b) == IF a < b THEN a ELSE b

(* The loop `while i < len(line)`: the writes it makes.  What is left in   *)
(* buffer when the loop ends is not written.                               *)
RECURSIVE body_loop(_, _, _, _, _)
body_loop(line, i, cont, buffer, writes) ==
    IF i >= Len(line) THEN writes
    ELSE LET hex_string == int2(SubSeq(line, i + 1, Min(i + 8, Len(line))))
             buf == buffer \o Fmt02X(hex_string)
         IN IF (cont + 1) % 4 = 0
            THEN body_loop(line, i + 8, 0, <<>>, Append(writes, Data(decode_hex(buf))))
            ELSE body_loop(line, i + 8, cont + 1, buf, writes)

Unbound == "<unbound>"

(* text_align is a local of the function (line 101 assigns it), and line   *)
(* 100 reads it before any assignment: the read raises UnboundLocalError.  *)
_print_image(line, size, ts) ==
    LET text_align0 == Unbound
    IN IF text_align0 = Unbound
       THEN [writes |-> <<>>, raised |-> "UnboundLocalError"]
       ELSE LET text_align ==
                    IF "align" \in DOMAIN ts.kw THEN ts.kw["align"] ELSE "None"
                header == Fmt02X((size[1] \div size[2]) \div 8) \o Fmt02X(0)
                              \o Fmt02X(size[2]) \o Fmt02X(0)
                body == body_loop(line, 0, 0, <<>>, <<>>)
                restore == IF text_align = "None" THEN <<>>
                           ELSE <<Cmd("TEXT_STYLE.align." \o text_align)>>
            IN [writes |-> <<Cmd("TEXT_STYLE.align.center"), Cmd("S_RASTER_N"),
                             Data(decode_hex(header))>> \o body \o restore,
                raised |-> NoException]

---------------------------------------------------------------------------
(* Escpos.set.  TEXT_STYLE maps each style key to the values it accepts    *)
(* (the docstring of set lists them); a style command is named by its key  *)
(* and value.                                                              *)

TEXT_STYLE ==
    [bold |-> {"True", "False"},
     underline |-> {"None", "1", "2"},
     size |-> {"normal", "2w", "2h", "2x"},
     font |-> {"a", "b", "c"},
     align |-> {"left", "center", "right"},
     inverted |-> {"True", "False"},
     color |-> {"1", "2"}]

StyleCmd(key, value) == Cmd("TEXT_STYLE." \o key \o "." \o value)

(* str.lower() and str.upper() on the strings the calls are given.         *)
lower(s) ==
    CASE s = "CENTER" -> "center"
      [] s = "RIGHT" -> "right"
      [] OTHER -> s

upper(s) ==
    CASE s = "part" -> "PART"
      [] s = "off" -> "OFF"
      [] s = "ean13" -> "EAN13"
      [] s = "below" -> "BELOW"
      [] OTHER -> s

(* The loop over TEXT_STYLE.iteritems(), from the i-th key of `order` on:  *)
(* the raw calls made and the exception that ends the loop, if any.        *)
RECURSIVE style_loop(_, _, _, _)
style_loop(kwargs, order, i, writes) ==
    IF i > Len(order) THEN [writes |-> writes, raised |-> NoException]
    ELSE LET key == order[i]
         IN IF key \notin DOMAIN kwargs
            THEN style_loop(kwargs, order, i + 1, writes)
            ELSE LET cur == lower(kwargs[key])
                 IN IF cur \in TEXT_STYLE[key]
                    THEN style_loop(kwargs, order, i + 1,
                                    Append(writes, StyleCmd(key, cur)))
                    ELSE [writes |-> writes, raised |-> "AttributeError"]

(* text_style after a set that raised nothing: kwargs, with align         *)
(* defaulting to left.                                                     *)
StyleOf(kwargs) ==
    [isNone |-> FALSE,
     kw |-> [k \in DOMAIN kwargs \cup {"align"} |->
                IF k \in DOMAIN kwargs THEN kwargs[k] ELSE "left"]]

(* set with every value checked before the first command is written.       *)
set_validate_first(kwargs, cp, order, ts, oldcp, dev, tr) ==
    IF \E key \in DOMAIN kwargs : key \notin DOMAIN TEXT_STYLE
    THEN [writes |-> <<>>, raised |-> "KeyError", text_style |-> ts, codepage |-> oldcp]
    ELSE LET loop == style_loop(kwargs, order, 1, <<>>)
             d1 == Deliver(IF loop.raised = NoException THEN loop.writes ELSE <<>>,
                           loop.raised, dev, tr)
         IN IF d1.raised # NoException
            THEN [writes |-> d1.writes, raised |-> d1.raised,
                  text_style |-> ts, codepage |-> oldcp]
            ELSE LET d2 == Deliver(IF cp = "None" THEN <<>>
                                   ELSE <<Cmd("PAGE_CP_SET_COMMAND+" \o cp)>>,
                                   NoException, dev, tr)
                 IN [writes |-> d1.writes \o d2.writes, raised |-> d2.raised,
                     text_style |-> StyleOf(kwargs), codepage |-> cp]

set(kwargs, cp, order, ts, oldcp, dev, tr) ==
    IF \E key \in DOMAIN kwargs : key \notin DOMAIN TEXT_STYLE
    THEN [writes |-> <<>>, raised |-> "KeyError", text_style |-> ts, codepage |-> oldcp]
    ELSE LET loop == style_loop(kwargs, order, 1, <<>>)
             d1 == Deliver(loop.writes, loop.raised, dev, tr)
         IN IF d1.raised # NoException
            THEN [writes |-> d1.writes, raised |-> d1.raised,
                  text_style |-> ts, codepage |-> oldcp]
            ELSE LET d2 == Deliver(IF cp = "None" THEN <<>>
                                   ELSE <<Cmd("PAGE_CP_SET_COMMAND+" \o cp)>>,
                                   NoException, dev, tr)
                 IN [writes |-> d1.writes \o d2.writes, raised |-> d2.raised,
                     text_style |-> StyleOf(kwargs), codepage |-> cp]

---------------------------------------------------------------------------
(* Escpos.cut, Escpos.__del__, Escpos.close                                *)

cut(mode, dev, tr) ==
    Deliver(<<Cmd("POSTFIX"),
              IF upper(mode) = "PART" THEN Cmd("PAPER_PART_CUT")
              ELSE Cmd("PAPER_FULL_CUT"),
              Cmd("FF")>>,
            NoException, dev, tr)

(* __del__: the driver's release is called when self.device is set; only   *)
(* a release that raises clears self.device.                               *)
del_(dev, relFails) ==
    IF dev # "None"
    THEN [released |-> 1, device |-> IF relFails THEN "None" ELSE dev]
    ELSE [released |-> 0, device |-> dev]

close(dev, tr, relFails) ==
    LET d == Deliver(<<Cmd("RESET")>>, NoException, dev, tr)
    IN IF d.raised # NoException
       THEN [writes |-> <<>>, raised |-> d.raised, released |-> 0, device |-> dev]
       ELSE LET r == del_(dev, relFails)
            IN [writes |-> d.writes, raised |-> NoException,
                released |-> r.released, device |-> r.device]

---------------------------------------------------------------------------
(* Escpos._font_barcode, _graph_barcode, qr, image                         *)

BarcodeTypes == {"UPC-A", "UPC-E", "EAN13", "EAN8", "CODE39", "ITF", "NW7"}

(* emptyExc is what `raise exception.BarcodeCodeError()` raises: the name  *)
(* `exception` is bound by nothing in the file, so NameError unless a      *)
(* star-import binds it.                                                   *)
_font_barcode(code, bc, width, height, pos, ts, emptyExc, dev, tr) ==
    LET w1 == <<Cmd("TEXT_STYLE.align.center")>>
        w2 == Append(w1,
                CASE upper(pos) = "OFF" -> Cmd("BARCODE_TXT_OFF")
                  [] upper(pos) = "BOTH" -> Cmd("BARCODE_TXT_BTH")
                  [] upper(pos) = "ABOVE" -> Cmd("BARCODE_TXT_ABV")
                  [] OTHER -> Cmd("BARCODE_TXT_BLW"))
    IN IF ~(height >= 2 \/ height <= 6)
       THEN Deliver(w2, "BarcodeSizeError", dev, tr)
       ELSE LET w3 == Append(w2, Cmd("BARCODE_HEIGHT"))
       IN IF ~(width >= 1 \/ width <= 255)
       THEN Deliver(w3, "BarcodeSizeError", dev, tr)
       ELSE LET w4 == Append(w3, Cmd("BARCODE_WIDTH"))
       IN IF upper(bc) \notin BarcodeTypes
       THEN Deliver(w4, "BarcodeTypeError", dev, tr)
       ELSE LET w5 == Append(w4, Cmd("BARCODE_" \o upper(bc)))
       IN IF code = ""
       THEN Deliver(w5, emptyExc, dev, tr)
       ELSE LET w6 == w5 \o <<Cmd("TEXT:" \o code), Cmd("NUL"), Cmd("CTL_LF")>>
       IN IF ts.isNone
       THEN Deliver(w6, "TypeError", dev, tr)
       ELSE IF ts.kw["align"] \notin TEXT_STYLE["align"]
       THEN Deliver(w6, "KeyError", dev, tr)
       ELSE Deliver(Append(w6, StyleCmd("align", ts.kw["align"])),
                    NoException, dev, tr)

(* qr: im is the RGB image the QR producer returned.  The image is         *)
(* converted, then printed.                                                *)
qr_align_first(im, ts, dev, tr) ==
    LET a == Deliver(<<Cmd("TEXT_STYLE.align.center")>>, NoException, dev, tr)
        c == _convert_image(im)
    IN IF a.raised # NoException
       THEN [writes |-> <<>>, raised |-> a.raised, conv |-> c]
       ELSE IF c.raised # NoException
       THEN [writes |-> a.writes, raised |-> c.raised, conv |-> c]
       ELSE LET p == _print_image(c.pix_line, c.img_size, ts)
                d == Deliver(p.writes, p.raised, dev, tr)
            IN [writes |-> a.writes \o d.writes, raised |-> d.raised, conv |-> c]

qr(im, ts, dev, tr) ==
    LET c == _convert_image(im)
    IN IF c.raised # NoException
       THEN [writes |-> <<>>, raised |-> c.raised, conv |-> c]
       ELSE LET p == _print_image(c.pix_line, c.img_size, ts)
                d == Deliver(p.writes, p.raised, dev, tr)
            IN [writes |-> d.writes, raised |-> d.raised, conv |-> c]

(* The dpi _graph_barcode asks the barcode writer for.                     *)
graph_dpi(width, height, dpi) ==
    IF width # 0 \/ height # 0
    THEN IF width >= 1 \/ width <= 255
         THEN IF width > 180 THEN 300
              ELSE IF width > 90 /\ width < 180 THEN 180
              ELSE dpi
         ELSE dpi
    ELSE dpi

(* _graph_barcode: im is the RGB image the barcode writer rendered.        *)
_graph_barcode(im, ts, dev, tr) ==
    LET c == _convert_image(im)
    IN IF c.raised # NoException
       THEN [writes |-> <<>>, raised |-> c.raised, conv |-> c]
       ELSE LET p == _print_image(c.pix_line, c.img_size, ts)
                d == Deliver(p.writes, p.raised, dev, tr)
            IN [writes |-> d.writes, raised |-> d.raised, conv |-> c]

(* image converts the loaded image and drops the result.                   *)
image(im) ==
    LET c == _convert_image(im)
    IN [writes |-> <<>>, raised |-> c.raised, conv |-> c]

---------------------------------------------------------------------------
(* EscposIO.__exit__: excType is the exception leaving the with-body, or   *)
(* "None".  Every exception of the model is an Exception.                  *)

exit_(excType, acut, aclose, dev, tr, relFails) ==
    LET doCut == excType = "None" /\ acut
        c == IF doCut THEN cut("", dev, tr)
             ELSE [writes |-> <<>>, raised |-> NoException]
        calls1 == IF doCut THEN <<"cut">> ELSE <<>>
    IN IF c.raised # NoException
       THEN [writes |-> c.writes, raised |-> c.raised, calls |-> calls1,
             released |-> 0, device |-> dev]
       ELSE IF aclose
       THEN LET k == close(dev, tr, relFails)
            IN [writes |-> c.writes \o k.writes, raised |-> k.raised,
                calls |-> Append(calls1, "close"),
                released |-> k.released, device |-> k.device]
       ELSE [writes |-> c.writes, raised |-> NoException, calls |-> calls1,
             released |-> 0, device |-> dev]

---------------------------------------------------------------------------
(* The inputs of the calls.                                                *)

SetKwargs ==
    {[k \in S |-> IF k = "align" THEN a ELSE b] :
        S \in SUBSET {"align", "bold"}, a \in {"center", "RIGHT", "bogus"},
        b \in {"True", "bogus"}}
    \cup {[k \in {"wrong"} |-> "x"]}

SetCalls ==
    (SetKwargs \X {"None"}) \cup {<<[k \in {"bold"} |-> "True"], "cp437">>}

(* The orders in which a dict of the supplied style keys can be iterated.  *)
StyleKeysUsed == {"align", "bold"}
Orders ==
    {o \in [1..Cardinality(StyleKeysUsed) -> StyleKeysUsed] :
        \A i, j \in DOMAIN o : i # j => o[i] # o[j]}

BarcodeCodes == {"", "123"}
BarcodeNames == {"ean13", "QR"}
BarcodeWidths == {3, 200}
BarcodeHeights == {3, 9}
BarcodePositions == {"off", "below"}
EmptyCodeErrors == {"NameError", "BarcodeCodeError"}
CutModes == {"", "part"}
DefaultDpi == {200}

---------------------------------------------------------------------------
(* The state after construction.                                           *)

NoCall == [op |-> "none", raised |-> NoException, pre |-> 0, dev |-> "open",
           tr |-> "ok", ts |-> [isNone |-> TRUE, kw |-> <<>>], arg |-> <<>>]

Init ==
    /\ channel = <<>>
    /\ text_style = [isNone |-> TRUE, kw |-> <<>>]
    /\ codepage = "None"
    /\ device = "open"
    /\ releases = 0
    /\ transport = "ok"
    /\ scope = "none"
    /\ autocut = TRUE
    /\ autoclose = TRUE
    /\ pending = "None"
    /\ exitCalls = <<>>
    /\ iterOrder \in Orders
    /\ native \in BOOLEAN
    /\ steps = 0
    /\ last = NoCall

(* A call of a printer method can be made.                                 *)
CanCall == steps < MaxOps /\ pending = "None"

(* What a call leaves in last, and what it does to the channel, the step   *)
(* count and the with-body.                                                *)
Call(op, r, arg) ==
    /\ channel' = channel \o r.writes
    /\ steps' = steps + 1
    /\ pending' = IF scope = "body" THEN r.raised ELSE "None"
    /\ last' = [op |-> op, raised |-> r.raised, pre |-> Len(channel),
                dev |-> device, tr |-> transport, ts |-> text_style,
                arg |-> arg]

Set(kwargs, cp) ==
    /\ CanCall
    /\ LET r == set(kwargs, cp, iterOrder, text_style, codepage, device, transport)
       IN /\ Call("set", r, [kwargs |-> kwargs, codepage |-> cp])
          /\ text_style' = r.text_style
          /\ codepage' = r.codepage
    /\ UNCHANGED <<device, releases, transport, scope, autocut, autoclose,
                   exitCalls, iterOrder, native>>

Cut(mode) ==
    /\ CanCall
    /\ Call("cut", cut(mode, device, transport), [mode |-> mode])
    /\ UNCHANGED <<text_style, codepage, device, releases, transport, scope,
                   autocut, autoclose, exitCalls, iterOrder, native>>

Close(relFails) ==
    /\ CanCall
    /\ LET r == close(device, transport, relFails)
       IN /\ Call("close", r, [relFails |-> relFails, released |-> r.released])
          /\ device' = r.device
          /\ releases' = releases + r.released
    /\ UNCHANGED <<text_style, codepage, transport, scope, autocut, autoclose,
                   exitCalls, iterOrder, native>>

(* barcode reads device.printer.barcode and takes the firmware path or the *)
(* image path; the read fails when self.device is None.                    *)
BarcodeNoDevice(code) ==
    /\ CanCall
    /\ device = "None"
    /\ Call("barcode", [writes |-> <<>>, raised |-> "AttributeError"],
            [code |-> code])
    /\ UNCHANGED <<text_style, codepage, device, releases, transport, scope,
                   autocut, autoclose, exitCalls, iterOrder, native>>

BarcodeFont(code, bc, width, height, pos, emptyExc) ==
    /\ CanCall
    /\ device # "None"
    /\ native
    /\ Call("_font_barcode",
            _font_barcode(code, bc, width, height, pos, text_style, emptyExc,
                          device, transport),
            [code |-> code, bc |-> bc, pos |-> pos])
    /\ UNCHANGED <<text_style, codepage, device, releases, transport, scope,
                   autocut, autoclose, exitCalls, iterOrder, native>>

BarcodeGraph(width, height, dpi, im) ==
    /\ CanCall
    /\ device # "None"
    /\ ~native
    /\ LET r == _graph_barcode(im, text_style, device, transport)
       IN Call("_graph_barcode", r,
               [im |-> im, dpi |-> graph_dpi(width, height, dpi)])
    /\ UNCHANGED <<text_style, codepage, device, releases, transport, scope,
                   autocut, autoclose, exitCalls, iterOrder, native>>

Qr(im) ==
    /\ CanCall
    /\ LET r == qr(im, text_style, device, transport)
       IN Call("qr", r, [im |-> im])
    /\ UNCHANGED <<text_style, codepage, device, releases, transport, scope,
                   autocut, autoclose, exitCalls, iterOrder, native>>

Image(im) ==
    /\ CanCall
    /\ LET r == image(im)
       IN Call("image", r, [im |-> im])
    /\ UNCHANGED <<text_style, codepage, device, releases, transport, scope,
                   autocut, autoclose, exitCalls, iterOrder, native>>

(* with EscposIO(printer, autocut, autoclose) as p:                        *)
Enter(acut, aclose) ==
    /\ scope = "none"
    /\ scope' = "body"
    /\ autocut' = acut
    /\ autoclose' = aclose
    /\ UNCHANGED <<channel, text_style, codepage, device, releases, transport,
                   pending, exitCalls, iterOrder, native, steps, last>>

(* The with-block ends, normally or by the pending exception.              *)
Exit(relFails) ==
    /\ scope = "body"
    /\ LET r == exit_(pending, autocut, autoclose, device, transport, relFails)
       IN /\ channel' = channel \o r.writes
          /\ exitCalls' = exitCalls \o r.calls
          /\ device' = r.device
          /\ releases' = releases + r.released
          /\ last' = [op |-> "__exit__", raised |-> r.raised,
                      pre |-> Len(channel), dev |-> device, tr |-> transport,
                      ts |-> text_style,
                      arg |-> [excType |-> pending, relFails |-> relFails,
                               released |-> r.released]]
    /\ scope' = "exited"
    /\ pending' = "None"
    /\ UNCHANGED <<text_style, codepage, transport, autocut, autoclose,
                   iterOrder, native, steps>>

(* The transport goes away (the printer is unplugged).                     *)
TransportFails ==
    /\ transport = "ok"
    /\ transport' = "gone"
    /\ UNCHANGED <<channel, text_style, codepage, device, releases, scope,
                   autocut, autoclose, pending, exitCalls, iterOrder, native,
                   steps, last>>

(* A printing session: styles, barcodes and images.                        *)
Next ==
    \/ \E c \in SetCalls : Set(c[1], c[2])
    \/ \E code \in BarcodeCodes, bc \in BarcodeNames, width \in BarcodeWidths,
          height \in BarcodeHeights, pos \in BarcodePositions,
          emptyExc \in EmptyCodeErrors :
            BarcodeFont(code, bc, width, height, pos, emptyExc)
    \/ \E width \in BarcodeWidths, height \in BarcodeHeights,
          dpi \in DefaultDpi, im \in PrintImages :
            BarcodeGraph(width, height, dpi, im)
    \/ \E im \in PrintImages : Qr(im)
    \/ \E im \in PrintImages : Image(im)
    \/ TransportFails

Spec == Init /\ [][Next]_vars

(* The life of a session: the with-block, cut, close, and calls that can   *)
(* raise in the with-body.                                                 *)
NextScope ==
    \/ \E acut \in BOOLEAN, aclose \in BOOLEAN : Enter(acut, aclose)
    \/ \E relFails \in BOOLEAN : Exit(relFails)
    \/ \E mode \in CutModes : Cut(mode)
    \/ \E relFails \in BOOLEAN : Close(relFails)
    \/ \E code \in BarcodeCodes : BarcodeNoDevice(code)
    \/ \E im \in PrintImages : Image(im)
    \/ TransportFails

SpecScope == Init /\ [][NextScope]_vars

---------------------------------------------------------------------------
(* The conversion on its own: _check_image_size and _convert_image applied *)
(* to each input.                                                          *)

CheckImageSize(size) ==
    /\ steps = 0
    /\ steps' = 1
    /\ last' = [op |-> "_check_image_size", raised |-> NoException,
                pre |-> Len(channel), dev |-> device, tr |-> transport,
                ts |-> text_style,
                arg |-> [size |-> size, border |-> _check_image_size(size)]]
    /\ UNCHANGED <<channel, text_style, codepage, device, releases, transport,
                   scope, autocut, autoclose, pending, exitCalls, iterOrder,
                   native>>

ConvertImage(im) ==
    /\ steps = 0
    /\ steps' = 1
    /\ LET c == _convert_image(im)
       IN last' = [op |-> "_convert_image", raised |-> c.raised,
                   pre |-> Len(channel), dev |-> device, tr |-> transport,
                   ts |-> text_style, arg |-> [im |-> im, conv |-> c]]
    /\ UNCHANGED <<channel, text_style, codepage, device, releases, transport,
                   scope, autocut, autoclose, pending, exitCalls, iterOrder,
                   native>>

NextConvert ==
    \/ \E size \in 0..MaxWidth : CheckImageSize(size)
    \/ \E im \in Images : ConvertImage(im)

SpecConvert == Init /\ [][NextConvert]_vars

---------------------------------------------------------------------------
(* What the claims speak of.                                               *)

(* The writes of the last call.                                            *)
CallWrites == SubSeq(channel, last.pre + 1, Len(channel))

PrintOps == {"qr", "_graph_barcode"}

(* The padding of a row of width w, as the specification states it.        *)
Border(w) == (32 - (w % 32)) % 32
LeftPad(w) == Border(w) \div 2
RightPad(w) == Border(w) - LeftPad(w)
PaddedWidth(w) == w + LeftPad(w) + RightPad(w)

(* The bit of the pixel (x, y): 1 up to luminance 255, 0 above 510, and in *)
(* between 1 at an even row-major index and 0 at an odd one.               *)
PixelBit(im, x, y) ==
    LET RGB == getpixel(im, x, y)
        L == RGB[1] + RGB[2] + RGB[3]
        k == y * im.w + x
    IN IF L <= 255 THEN "1"
       ELSE IF L > 510 THEN "0"
       ELSE IF k % 2 = 0 THEN "1" ELSE "0"

(* The bitstream of an image, row by row: left padding, pixels, right      *)
(* padding.                                                                *)
Bitstream(im) ==
    LET P == PaddedWidth(im.w)
    IN [n \in 1..(P * im.h) |->
            LET y == (n - 1) \div P
                c == (n - 1) % P
            IN IF c < LeftPad(im.w) \/ c >= LeftPad(im.w) + im.w THEN "0"
               ELSE PixelBit(im, c - LeftPad(im.w), y)]

(* Byte j (from 0) of the bitstream, most significant bit first.           *)
BodyByte(bits, j) ==
    LET b(i) == IF bits[8 * j + i] = "1" THEN 1 ELSE 0
    IN 128 * b(1) + 64 * b(2) + 32 * b(3) + 16 * b(4)
        + 8 * b(5) + 4 * b(6) + 2 * b(7) + b(8)

(* The raster command of an image: marker, header, body in groups of 4.    *)
RasterCommand(im) ==
    LET P == PaddedWidth(im.w)
        bits == Bitstream(im)
        groups == [g \in 1..((P * im.h) \div 32) |->
                      Data(<<BodyByte(bits, 4 * g - 4), BodyByte(bits, 4 * g - 3),
                             BodyByte(bits, 4 * g - 2), BodyByte(bits, 4 * g - 1)>>)]
    IN <<Cmd("S_RASTER_N"), Data(<<P \div 8, 0, im.h, 0>>)>> \o groups

(* seq holds part, contiguously and in order.                              *)
Holds(seq, part) ==
    \E i \in 1..(Len(seq) + 1) :
        /\ i + Len(part) - 1 <= Len(seq)
        /\ SubSeq(seq, i, i + Len(part) - 1) = part

(* The style keys of a set call whose value is outside the vocabulary.     *)
Invalid(kwargs, key) ==
    key \in DOMAIN kwargs /\ lower(kwargs[key]) \notin TEXT_STYLE[key]

(* The commands of the valid keys that the iteration reaches before the    *)
(* first invalid one.                                                      *)
CommandsBeforeInvalid(kwargs, order) ==
    LET first == CHOOSE i \in 1..Len(order) :
                    /\ Invalid(kwargs, order[i])
                    /\ \A j \in 1..(i - 1) : ~Invalid(kwargs, order[j])
        Supplied(key) == key \in DOMAIN kwargs
        keys == SelectSeq(SubSeq(order, 1, first - 1), Supplied)
    IN [j \in 1..Len(keys) |-> StyleCmd(keys[j], lower(kwargs[keys[j]]))]

(* A set call with known keys only, one of them with an invalid value,     *)
(* made while the channel accepted writes.                                 *)
SetWithInvalidValue ==
    /\ last.op = "set"
    /\ last.tr = "ok"
    /\ DOMAIN last.arg.kwargs \subseteq DOMAIN TEXT_STYLE
    /\ \E key \in DOMAIN last.arg.kwargs : Invalid(last.arg.kwargs, key)

---------------------------------------------------------------------------
(* C1: leaving the with-block of a session with autoclose (its device      *)
(* still set) calls close exactly once on every exit path: after the       *)
(* automatic cut when the body ended normally (and autocut is set),        *)
(* without a cut when an exception left the body, and also when the cut    *)
(* itself fails.                                                           *)
C1_CloseOnEveryExit ==
    (last.op = "__exit__" /\ autoclose /\ last.dev = "open") =>
        exitCalls = (IF last.arg.excType = "None" /\ autocut
                     THEN <<"cut", "close">>
                     ELSE <<"close">>)

(* C2: close is idempotent and never raises: whatever the close calls      *)
(* made, the release of the device is performed at most once, exactly once *)
(* after a close, and no close raises.                                     *)
C2_CloseIdempotent ==
    /\ releases <= 1
    /\ last.op = "close" => (last.raised = NoException /\ releases = 1)

(* C3: a print call (qr, graphical barcode, image) given an image higher   *)
(* than 255 raises ImageSizeError and writes nothing to the channel.       *)
C3_TallImageWritesNothing ==
    (last.op \in PrintOps \cup {"image"} /\ last.arg.im.h > MaxImageHeight) =>
        (last.raised = "ImageSizeError" /\ CallWrites = <<>>)

C3_Witness ==
    /\ last.op = "qr"
    /\ last.arg.im.h > MaxImageHeight
    /\ last.raised = "ImageSizeError"
    /\ channel # <<>>

(* C4: the padding pair of _check_image_size for width w: the left pad is  *)
(* floor(border / 2), the pads add up to border = (32 - w % 32) % 32, the  *)
(* padded width is a multiple of 32 and the padding is less than 32.       *)
C4_PaddingPair ==
    last.op = "_check_image_size" =>
        LET w == last.arg.size
            leftPad == last.arg.border[1]
            rightPad == last.arg.border[2]
        IN /\ leftPad = Border(w) \div 2
           /\ leftPad + rightPad = Border(w)
           /\ (w + leftPad + rightPad) % 32 = 0
           /\ leftPad + rightPad < 32

C4_Witness ==
    /\ last.op = "_check_image_size"
    /\ last.arg.size = 33
    /\ last.arg.border = <<15, 16>>

(* C5: a raster print of an image of height 1..255 writes the raster       *)
(* marker, the header (P/8, 0, H, 0) and every body byte, packed most      *)
(* significant bit first, in row-major order in groups of 4.               *)
C5_RasterWritten ==
    (/\ last.op \in PrintOps
     /\ last.tr = "ok"
     /\ last.arg.im.h <= MaxImageHeight) =>
        Holds(CallWrites, RasterCommand(last.arg.im))

(* C6: a raster print writes the center alignment command first and, after *)
(* the last body group, the command of the alignment text_style recorded   *)
(* before the print.                                                       *)
C6_AlignmentBracket ==
    (/\ last.op \in PrintOps
     /\ last.tr = "ok"
     /\ last.arg.im.h <= MaxImageHeight
     /\ ~last.ts.isNone
     /\ last.ts.kw["align"] \in TEXT_STYLE["align"]) =>
        /\ CallWrites # <<>>
        /\ CallWrites[1] = StyleCmd("align", "center")
        /\ CallWrites[Len(CallWrites)] = StyleCmd("align", last.ts.kw["align"])

(* C7 as stated: a set call with a value outside its key's vocabulary      *)
(* raises the invalid-value error and writes nothing during the call,      *)
(* whatever valid keys come with it.                                       *)
C7_InvalidValueWritesNothing ==
    SetWithInvalidValue =>
        (last.raised = "AttributeError" /\ CallWrites = <<>>)

(* C7, amended: such a call raises the invalid-value error, leaves         *)
(* text_style as it was, and has written exactly the commands of the valid *)
(* keys that TEXT_STYLE's iteration yields before the invalid one: nothing *)
(* for the invalid key or a later key, and nothing at all when the invalid *)
(* key is the only key supplied.                                           *)
C7_InvalidValueStopsWrites ==
    SetWithInvalidValue =>
        /\ last.raised = "AttributeError"
        /\ text_style = last.ts
        /\ CallWrites = CommandsBeforeInvalid(last.arg.kwargs, iterOrder)
        /\ Cardinality(DOMAIN last.arg.kwargs) = 1 => CallWrites = <<>>

C7_Witness ==
    /\ SetWithInvalidValue
    /\ DOMAIN last.arg.kwargs = {"align", "bold"}
    /\ last.arg.kwargs["align"] = "bogus"
    /\ last.raised = "AttributeError"
    /\ CallWrites = <<StyleCmd("bold", "True")>>

(* C8: on the firmware path a barcode call with empty code data raises     *)
(* BarcodeCodeError before any byte is written.                            *)
C8_EmptyCodeWritesNothing ==
    (last.op = "_font_barcode" /\ last.arg.code = "") =>
        (last.raised = "BarcodeCodeError" /\ CallWrites = <<>>)

(* C9: image on a loadable image of height <= 255 returns with the raster  *)
(* marker, header and body of that image written to the channel.           *)
C9_ImagePrints ==
    (/\ last.op = "image"
     /\ last.tr = "ok"
     /\ last.arg.im.h <= MaxImageHeight) =>
        /\ last.raised = NoException
        /\ Holds(CallWrites, RasterCommand(last.arg.im))

(* C10: for an image of height <= 255 the conversion gives, row by row,    *)
(* the left padding zeros, one bit per pixel and the right padding zeros;  *)
(* a pixel's bit is 1 up to luminance 255, 0 above 510, and otherwise the  *)
(* toggle that flips at every pixel and is not reset at a row boundary.    *)
C10_Bitstream ==
    (last.op = "_convert_image" /\ last.arg.im.h <= MaxImageHeight) =>
        /\ last.raised = NoException
        /\ Len(last.arg.conv.pix_line) = PaddedWidth(last.arg.im.w) * last.arg.im.h
        /\ last.arg.conv.pix_line = Bitstream(last.arg.im)

C10_Witness ==
    /\ last.op = "_convert_image"
    /\ last.arg.im = [w |-> 1, h |-> 2, pat |-> <<<<255, 1, 0>>>>]
    /\ last.arg.conv.pix_line[16] = "1"
    /\ last.arg.conv.pix_line[48] = "0"

====
